---- MODULE Spec2Model ----
(***************************************************************************)
(* Model of generate.py: the GGM -> OpenRegister configuration generator.  *)
(*                                                                         *)
(* Python strings are sequences of one-character strings, so that the      *)
(* conversions of the source (slugify, _sanitize_property_name, strip,     *)
(* lower, the regular expressions of map_type) are computed character by   *)
(* character.  A value read from a database column is a tagged value:      *)
(* Null (SQL NULL / Python None), StrV(s) or IntV(n).  A Python dict is a    *)
(* sequence of <<key, value>> pairs in insertion order.                    *)
(***************************************************************************)
EXTENDS Integers, Sequences, FiniteSets, TLC

(***************************************************************************)
(* Characters and strings                                                  *)
(***************************************************************************)
UpperChars == <<"A","B","C","D","E","F","G","H","I","J","K","L","M",
                "N","O","P","Q","R","S","T","U","V","W","X","Y","Z">>
LowerChars == <<"a","b","c","d","e","f","g","h","i","j","k","l","m",
                "n","o","p","q","r","s","t","u","v","w","x","y","z">>
DigitChars == <<"0","1","2","3","4","5","6","7","8","9">>

Range(s) == { s[i] : i \in DOMAIN s }

IsUpper(c) == c \in Range(UpperChars)
IsLower(c) == c \in Range(LowerChars)
IsAlpha(c) == IsUpper(c) \/ IsLower(c)
IsDigit(c) == c \in Range(DigitChars)
IsSpace(c) == c \in {" ", "\t", "\n"}

IndexOf(c, s) == CHOOSE i \in DOMAIN s : s[i] = c

LowerChar(c) == IF IsUpper(c) THEN LowerChars[IndexOf(c, UpperChars)] ELSE c
UpperChar(c) == IF IsLower(c) THEN UpperChars[IndexOf(c, LowerChars)] ELSE c

\* str.lower()
Lower(s) == [i \in DOMAIN s |-> LowerChar(s[i])]

\* str.strip(): leading and trailing whitespace removed
RECURSIVE LStrip(_)
LStrip(s) == IF s # <<>> /\ IsSpace(Head(s)) THEN LStrip(Tail(s)) ELSE s
RECURSIVE RStrip(_)
RStrip(s) ==
    IF s # <<>> /\ IsSpace(s[Len(s)]) THEN RStrip(SubSeq(s, 1, Len(s) - 1)) ELSE s
Strip(s) == RStrip(LStrip(s))

\* str.strip('-')
RECURSIVE LStripHyphen(_)
LStripHyphen(s) == IF s # <<>> /\ Head(s) = "-" THEN LStripHyphen(Tail(s)) ELSE s
RECURSIVE RStripHyphen(_)
RStripHyphen(s) ==
    IF s # <<>> /\ s[Len(s)] = "-" THEN RStripHyphen(SubSeq(s, 1, Len(s) - 1)) ELSE s
StripHyphen(s) == RStripHyphen(LStripHyphen(s))

StartsWith(s, p) == Len(s) >= Len(p) /\ SubSeq(s, 1, Len(p)) = p
EndsWith(s, p) == Len(s) >= Len(p) /\ SubSeq(s, Len(s) - Len(p) + 1, Len(s)) = p
\* p in s
Contains(s, p) == \E i \in 1..(Len(s) - Len(p) + 1) : SubSeq(s, i, i + Len(p) - 1) = p

AllDigits(s) == s # <<>> /\ \A i \in DOMAIN s : IsDigit(s[i])
\* str.isalpha()
IsAlphaStr(s) == s # <<>> /\ \A i \in DOMAIN s : IsAlpha(s[i])

\* int(s) for a string of decimal digits
RECURSIVE ParseInt(_)
ParseInt(s) ==
    IF s = <<>> THEN 0
    ELSE 10 * ParseInt(SubSeq(s, 1, Len(s) - 1)) + (IndexOf(s[Len(s)], DigitChars) - 1)

\* str(n) for an integer n >= 0
RECURSIVE DecStr(_)
DecStr(n) ==
    IF n < 10 THEN <<DigitChars[n + 1]>>
    ELSE DecStr(n \div 10) \o <<DigitChars[(n % 10) + 1]>>

\* the characters of s as one TLA+ string, to compare with keyword literals
RECURSIVE ToStr(_)
ToStr(s) == IF s = <<>> THEN "" ELSE Head(s) \o ToStr(Tail(s))

(***************************************************************************)
(* Values of database columns                                              *)
(***************************************************************************)
Null == [null |-> TRUE]
StrV(s) == [str |-> s]
IntV(n) == [int |-> n]

IsNull(v) == "null" \in DOMAIN v
IsStr(v) == "str" \in DOMAIN v
IsInt(v) == "int" \in DOMAIN v

\* Python truthiness of a column value
Truthy(v) ==
    IF IsNull(v) THEN FALSE
    ELSE IF IsStr(v) THEN v.str # <<>>
    ELSE v.int # 0

\* str(v) of a column value that is not None
PyStr(v) == IF IsStr(v) THEN v.str ELSE DecStr(v.int)

\* `v or ""` for a text column
OrEmpty(v) == IF Truthy(v) THEN PyStr(v) ELSE <<>>

(***************************************************************************)
(* Python dicts, in insertion order                                        *)
(***************************************************************************)
EmptyDict == <<>>
Keys(d) == [i \in DOMAIN d |-> d[i][1]]
HasKey(d, k) == \E i \in DOMAIN d : d[i][1] = k
Get(d, k) == d[CHOOSE i \in DOMAIN d : d[i][1] = k][2]
\* d[k] = v: a present key keeps its position and takes the new value
DictSet(d, k, v) ==
    IF HasKey(d, k)
    THEN [i \in DOMAIN d |-> IF d[i][1] = k THEN <<k, v>> ELSE d[i]]
    ELSE Append(d, <<k, v>>)

(***************************************************************************)
(* Type mapping                                                            *)
(***************************************************************************)
\* variant: the pattern N\d+ without its end anchor
MatchNPrefix(t) ==
    Len(t) >= 2 /\ Head(t) = "N" /\ IsDigit(t[2])

\* re.match(r'^N\d+$', t)
MatchNDigits(t) == t # <<>> /\ Head(t) = "N" /\ AllDigits(Tail(t))

\* re.match(r'^N\d+[.,]\d+$', t)
MatchNDecimal(t) ==
    /\ t # <<>>
    /\ Head(t) = "N"
    /\ \E i \in 3..(Len(t) - 1) :
          /\ t[i] \in {".", ","}
          /\ AllDigits(SubSeq(t, 2, i - 1))
          /\ AllDigits(SubSeq(t, i + 1, Len(t)))

\* re.match(r'^AN(\d+)$', t)
MatchAN(t) == StartsWith(t, <<"A", "N">>) /\ AllDigits(SubSeq(t, 3, Len(t)))
ANGroup(t) == SubSeq(t, 3, Len(t))

\* the longest run of digits at the head of s
RECURSIVE DigitPrefix(_)
DigitPrefix(s) ==
    IF s # <<>> /\ IsDigit(Head(s)) THEN <<Head(s)>> \o DigitPrefix(Tail(s)) ELSE <<>>

Varchar == <<"v","a","r","c","h","a","r">>

\* what follows "varchar" and an optional "2" when a "(" comes next
VarcharRest(tl) ==
    LET r == SubSeq(tl, Len(Varchar) + 1, Len(tl))
        r2 == IF r # <<>> /\ Head(r) = "2" /\ Len(r) >= 2 /\ r[2] = "(" THEN Tail(r) ELSE r
    IN  r2

\* re.match(r'varchar2?\((\d+)\)', t_lower), for t_lower starting with "varchar"
MatchVarcharLen(tl) ==
    LET r == VarcharRest(tl)
    IN  /\ r # <<>>
        /\ Head(r) = "("
        /\ DigitPrefix(Tail(r)) # <<>>
        /\ Len(r) >= Len(DigitPrefix(Tail(r))) + 2
        /\ r[Len(DigitPrefix(Tail(r))) + 2] = ")"
VarcharGroup(tl) == DigitPrefix(Tail(VarcharRest(tl)))

map_type(type_name) ==
    IF ~Truthy(type_name) THEN [type |-> "string"]
    ELSE
    LET t == Strip(type_name.str)
        t_lower == ToStr(Lower(t))
    IN
    IF t_lower \in {"boolean", "bool", "indic", "stdindijn"} THEN [type |-> "boolean"]
    ELSE IF t_lower \in {"int", "integer", "number"} THEN [type |-> "integer"]
    ELSE IF MatchNDigits(t) THEN [type |-> "integer"]
    ELSE IF t_lower \in {"double", "decimal", "float"} THEN [type |-> "number"]
    ELSE IF t_lower = "bedrag" \/ t_lower = "geldbedrag" THEN [type |-> "number"]
    ELSE IF MatchNDecimal(t) THEN [type |-> "number"]
    ELSE IF t_lower \in {"date", "datum"} THEN [type |-> "string", format |-> "date"]
    ELSE IF t_lower \in {"datetime", "datumtijd"}
         THEN [type |-> "string", format |-> "date-time"]
    ELSE IF t_lower = "time" THEN [type |-> "string", format |-> "time"]
    ELSE IF t_lower \in {"jaar", "year"} THEN [type |-> "string", format |-> "date"]
    ELSE IF t_lower = "onvolledgedatum" THEN [type |-> "string"]
    ELSE IF t_lower \in {"url", "uri"} THEN [type |-> "string", format |-> "uri"]
    ELSE IF t_lower = "email" THEN [type |-> "string", format |-> "email"]
    ELSE IF t_lower = "iban" THEN [type |-> "string"]
    ELSE IF t_lower = "telefoonnummer" THEN [type |-> "string"]
    ELSE IF t_lower \in {"point", "punt", "gm_point", "gm_punt"}
         THEN [type |-> "string", format |-> "geo"]
    ELSE IF t_lower \in {"gm_surface", "gm_multisurface", "vlak", "spatial",
                         "gm_curve", "gm_lijn", "gm_multicurve", "gm_multipoint",
                         "multipuntlijn(multi)vlak"}
         THEN [type |-> "string", format |-> "geo"]
    ELSE IF t_lower = "guid" THEN [type |-> "string", format |-> "uuid"]
    ELSE IF t_lower = "blob" THEN [type |-> "string", format |-> "binary"]
    ELSE IF t_lower = "image" THEN [type |-> "string", format |-> "binary"]
    ELSE IF MatchAN(t) THEN [type |-> "string", maxLength |-> ParseInt(ANGroup(t))]
    ELSE IF StartsWith(Lower(t), Varchar)
         THEN IF MatchVarcharLen(Lower(t))
              THEN [type |-> "string", maxLength |-> ParseInt(VarcharGroup(Lower(t)))]
              ELSE [type |-> "string", maxLength |-> 255]
    ELSE IF t_lower \in {"char", "characterstring", "string", "text", "tekst", "tan"}
         THEN [type |-> "string"]
    ELSE IF Len(t) <= 3 /\ IsAlphaStr(t) THEN [type |-> "string"]
    ELSE [type |-> "string"]

(***************************************************************************)
(* Slugs and property names                                                *)
(***************************************************************************)
\* re.sub(r'[\s]+', '-', s)
RECURSIVE SpaceRunsToHyphen(_)
SpaceRunsToHyphen(s) ==
    IF s = <<>> THEN <<>>
    ELSE IF IsSpace(Head(s)) THEN <<"-">> \o SpaceRunsToHyphen(LStrip(Tail(s)))
    ELSE <<Head(s)>> \o SpaceRunsToHyphen(Tail(s))

\* re.sub(r'-+', '-', s)
RECURSIVE CollapseHyphens(_)
CollapseHyphens(s) ==
    IF s = <<>> THEN <<>>
    ELSE IF Head(s) = "-" THEN <<"-">> \o CollapseHyphens(LStripHyphen(Tail(s)))
    ELSE <<Head(s)>> \o CollapseHyphens(Tail(s))

IsSlugChar(c) == IsLower(c) \/ IsDigit(c) \/ IsSpace(c) \/ c = "-"

slugify(name) ==
    LET s1 == Lower(name)
        s2 == SelectSeq(s1, IsSlugChar)
        s3 == SpaceRunsToHyphen(s2)
        s4 == CollapseHyphens(s3)
    IN  StripHyphen(s4)

\* the first whitespace-delimited word of s, s not starting with whitespace
RECURSIVE FirstWord(_)
FirstWord(s) ==
    IF s = <<>> \/ IsSpace(Head(s)) THEN <<>> ELSE <<Head(s)>> \o FirstWord(Tail(s))

\* str.split()
RECURSIVE Split(_)
Split(s) ==
    LET r == LStrip(s)
    IN  IF r = <<>> THEN <<>>
        ELSE <<FirstWord(r)>> \o Split(SubSeq(r, Len(FirstWord(r)) + 1, Len(r)))

IsPropertyChar(c) == IsAlpha(c) \/ IsDigit(c) \/ IsSpace(c) \/ c = "_"

\* part[:1].lower() + part[1:]
LowerFirst(part) == IF part = <<>> THEN <<>> ELSE <<LowerChar(Head(part))>> \o Tail(part)
\* part[:1].upper() + part[1:]
UpperFirst(part) == IF part = <<>> THEN <<>> ELSE <<UpperChar(Head(part))>> \o Tail(part)

RECURSIVE JoinUpperFirst(_)
JoinUpperFirst(parts) ==
    IF parts = <<>> THEN <<>>
    ELSE UpperFirst(Head(parts)) \o JoinUpperFirst(Tail(parts))

\* name is a string; a None name is passed as the empty string (both are falsy)
_sanitize_property_name(name) ==
    IF name = <<>> THEN <<>>
    ELSE
    LET parts == Split(SelectSeq(Strip(name), IsPropertyChar))
    IN  IF parts = <<>> THEN <<>>
        ELSE LowerFirst(Head(parts)) \o JoinUpperFirst(Tail(parts))

(***************************************************************************)
(* Configuration                                                           *)
(***************************************************************************)
\* the domain table, in its insertion order (the order of .items())
DOMAIN_PACKAGES == <<
    [id |-> 4,   slug |-> "ggm-bestuur-politiek",
                 file |-> "0-bestuur-politiek.openregister.json"],
    [id |-> 12,  slug |-> "ggm-veiligheid-vergunningen",
                 file |-> "1-veiligheid-vergunningen.openregister.json"],
    [id |-> 15,  slug |-> "ggm-verkeer-vervoer-waterstaat",
                 file |-> "2-verkeer-vervoer-waterstaat.openregister.json"],
    [id |-> 22,  slug |-> "ggm-economie",
                 file |-> "3-economie.openregister.json"],
    [id |-> 25,  slug |-> "ggm-onderwijs",
                 file |-> "4-onderwijs.openregister.json"],
    [id |-> 32,  slug |-> "ggm-sport-cultuur-recreatie",
                 file |-> "5-sport-cultuur-recreatie.openregister.json"],
    [id |-> 52,  slug |-> "ggm-sociaal-domein",
                 file |-> "6-sociaal-domein.openregister.json"],
    [id |-> 91,  slug |-> "ggm-volksgezondheid-milieu",
                 file |-> "7-volksgezondheid-milieu.openregister.json"],
    [id |-> 95,  slug |-> "ggm-volkshuisvesting-leefomgeving",
                 file |-> "8-volkshuisvesting-leefomgeving.openregister.json"],
    [id |-> 114, slug |-> "ggm-interne-organisatie",
                 file |-> "9-interne-organisatie.openregister.json"],
    [id |-> 135, slug |-> "ggm-dienstverlening",
                 file |-> "10-dienstverlening.openregister.json"],
    [id |-> 367, slug |-> "ggm-kern",
                 file |-> "99-kern.openregister.json"] >>

NumDomains == Len(DOMAIN_PACKAGES)
DomainIds == { DOMAIN_PACKAGES[i].id : i \in DOMAIN DOMAIN_PACKAGES }

(***************************************************************************)
(* Database access.  A database d is a record of four tables, each a       *)
(* sequence of rows in the order the queries return them:                  *)
(*   t_package    [Package_ID, Parent_ID]                                  *)
(*   t_object     [Object_ID, Name, Object_Type, Stereotype, Package_ID]   *)
(*   t_attribute  [Object_ID, Name, Type, Classifier, LowerBound]          *)
(*   t_connector  [Connector_Type, Name, Start_Object_ID, End_Object_ID,   *)
(*                 SourceCard, DestCard, SourceRole, DestRole]             *)
(* The columns Note, Notes, Default, Length, UpperBound and ea_guid only   *)
(* add description and default texts to the output and are not carried.    *)
(***************************************************************************)
\* package_children[parent_id], built by _build_package_tree
package_children(d, parent_id) ==
    LET rows == SelectSeq(d.t_package, LAMBDA r : r.Parent_ID = parent_id)
    IN  [i \in DOMAIN rows |-> rows[i].Package_ID]

\* the recursion of the source; it is defined on hierarchies without a cycle
RECURSIVE get_descendant_packages(_, _)
RECURSIVE DescendantsOfAll(_, _)
DescendantsOfAll(d, ids) ==
    IF ids = <<>> THEN <<>>
    ELSE get_descendant_packages(d, Head(ids)) \o DescendantsOfAll(d, Tail(ids))
get_descendant_packages(d, parent_id) ==
    <<parent_id>> \o DescendantsOfAll(d, package_children(d, parent_id))

\* variant: the classes of every package
get_classes_anywhere(d, package_ids) ==
    SelectSeq(d.t_object,
              LAMBDA r : r.Object_Type = "Class" /\ r.Stereotype = "Objecttype")

get_classes_in_packages(d, package_ids) ==
    SelectSeq(d.t_object,
              LAMBDA r : /\ r.Object_Type = "Class"
                         /\ r.Stereotype = "Objecttype"
                         /\ r.Package_ID \in Range(package_ids))

get_attributes(d, object_id) ==
    SelectSeq(d.t_attribute, LAMBDA r : r.Object_ID = object_id)

get_associations_for_object(d, object_id) ==
    SelectSeq(d.t_connector,
              LAMBDA r : /\ r.Connector_Type \in {"Association", "Aggregation"}
                         /\ (r.Start_Object_ID = object_id \/ r.End_Object_ID = object_id))

get_generalizations_for_object(d, object_id) ==
    LET rows == SelectSeq(d.t_connector,
                          LAMBDA r : /\ r.Connector_Type = "Generalization"
                                     /\ r.Start_Object_ID = object_id)
    IN  [i \in DOMAIN rows |-> rows[i].End_Object_ID]

\* self.objects: the t_object row of an id, when there is one
HasObject(d, object_id) == \E i \in DOMAIN d.t_object : d.t_object[i].Object_ID = object_id
ObjectOf(d, object_id) ==
    d.t_object[CHOOSE i \in DOMAIN d.t_object : d.t_object[i].Object_ID = object_id]

\* self.enums: the ids of the Enumeration objects, and the literals of each
IsEnum(d, object_id) ==
    HasObject(d, object_id) /\ ObjectOf(d, object_id).Object_Type = "Enumeration"
EnumLiterals(d, object_id) ==
    LET rows == get_attributes(d, object_id)
    IN  [i \in DOMAIN rows |-> rows[i].Name]

(***************************************************************************)
(* Generator: the pure parts                                               *)
(***************************************************************************)
\* prop[name] = val on a property definition
WithField(prop, name, val) == (name :> val) @@ prop

\* int(classifier), for an integer or a string of digits
ClassifierId(classifier) ==
    IF IsInt(classifier) THEN classifier.int ELSE ParseInt(classifier.str)

_map_attribute(d, attr) ==
    LET attr_name == attr.Name
        classifier == attr.Classifier
        standard == WithField(map_type(attr.Type), "title", attr_name)
    IN  IF Truthy(classifier) /\ ToStr(PyStr(classifier)) \notin {"0", ""}
        THEN LET classifier_id == ClassifierId(classifier)
             IN  IF IsEnum(d, classifier_id)
                 THEN LET literals == EnumLiterals(d, classifier_id)
                          prop == [type |-> "string", title |-> attr_name]
                      IN  IF literals # <<>> THEN WithField(prop, "enum", literals)
                          ELSE prop
                 ELSE IF /\ HasObject(d, classifier_id)
                         /\ ObjectOf(d, classifier_id).Object_Type = "DataType"
                      THEN WithField(map_type(attr.Type), "title", attr_name)
                      ELSE standard
        ELSE standard

\* variant: only the cardinalities the code lists are looked up
IsMultipleExplicitOnly(cardinality) ==
    Truthy(cardinality) /\ ToStr(PyStr(cardinality)) \in {"0..*", "1..*", "*"}

\* the last check of the cardinality: is_multiple
IsMultiple(cardinality) ==
    IF ~Truthy(cardinality) THEN FALSE
    ELSE LET card_str == PyStr(cardinality)
             first == \/ Contains(card_str, <<"*">>)
                      \/ /\ Contains(card_str, <<".", ".">>)
                         /\ ~EndsWith(card_str, <<".", ".", "1">>)
         IN  IF ToStr(card_str) \in {"0..*", "1..*", "*"} THEN TRUE
             ELSE IF ToStr(card_str) \in {"0..1", "1", "1..1"} THEN FALSE
             ELSE first

\* the end of assoc that is not source_obj_id
OtherEnd(assoc, source_obj_id) ==
    IF assoc.Start_Object_ID = source_obj_id
    THEN [target_id |-> assoc.End_Object_ID,
          cardinality |-> assoc.DestCard,
          role |-> IF Truthy(assoc.DestRole) THEN assoc.DestRole.str
                   ELSE OrEmpty(assoc.Name)]
    ELSE [target_id |-> assoc.Start_Object_ID,
          cardinality |-> assoc.SourceCard,
          role |-> IF Truthy(assoc.SourceRole) THEN assoc.SourceRole.str
                   ELSE OrEmpty(assoc.Name)]

AssociationPropName(role, target_slug) ==
    LET prop_name == _sanitize_property_name(IF role # <<>> THEN role ELSE target_slug)
    IN  IF prop_name = <<>> THEN target_slug ELSE prop_name

AssociationProp(is_multiple, prop_name, target_slug) ==
    IF is_multiple
    THEN [type |-> "array", title |-> prop_name,
          items |-> [type |-> "object", ref |-> target_slug]]
    ELSE [type |-> "object", title |-> prop_name, ref |-> target_slug]

\* variant: the target is not looked up in the index first
_map_association_unchecked(slug_map, assoc, source_obj_id) ==
    LET other == OtherEnd(assoc, source_obj_id)
        target_slug == IF HasKey(slug_map, other.target_id)
                       THEN Get(slug_map, other.target_id) ELSE <<>>
        prop_name == AssociationPropName(other.role, target_slug)
    IN  <<prop_name,
          AssociationProp(IsMultiple(other.cardinality), prop_name, target_slug)>>

\* None is <<>>; otherwise the pair <<prop_name, prop>>
_map_association(slug_map, assoc, source_obj_id) ==
    LET other == OtherEnd(assoc, source_obj_id)
    IN  IF ~HasKey(slug_map, other.target_id) THEN <<>>
        ELSE LET target_slug == Get(slug_map, other.target_id)
                 prop_name == AssociationPropName(other.role, target_slug)
             IN  <<prop_name,
                   AssociationProp(IsMultiple(other.cardinality), prop_name, target_slug)>>

\* variant: any truthy lower bound makes the attribute required
IsRequiredTruthy(lower) == Truthy(lower)

\* the check of the lower bound in _generate_schema
IsRequired(lower) == Truthy(lower) /\ ToStr(PyStr(lower)) \notin {"0", ""}

\* the slugs of the parents that the index knows, for the Extends annotation
RECURSIVE ParentNames(_, _)
ParentNames(slug_map, parent_ids) ==
    IF parent_ids = <<>> THEN <<>>
    ELSE (IF HasKey(slug_map, Head(parent_ids))
          THEN <<Get(slug_map, Head(parent_ids))>> ELSE <<>>)
         \o ParentNames(slug_map, Tail(parent_ids))

\* the while loop of _generate_domain: the first free slug from counter on
RECURSIVE FreeSlug(_, _, _)
FreeSlug(taken, original_slug, counter) ==
    LET slug == original_slug \o <<"-">> \o DecStr(counter)
    IN  IF HasKey(taken, slug) THEN FreeSlug(taken, original_slug, counter + 1) ELSE slug

\* variant: the counter starts at 3
FinalSlugFromThree(taken, slug) ==
    IF HasKey(taken, slug) THEN FreeSlug(taken, slug, 3) ELSE slug

FinalSlug(taken, slug) == IF HasKey(taken, slug) THEN FreeSlug(taken, slug, 2) ELSE slug

\* the inner loop of __init__ over the classes of one domain
RECURSIVE IndexClasses(_, _, _)
IndexClasses(maps, pkg_id, clss) ==
    IF clss = <<>> THEN maps
    ELSE IndexClasses(
            [maps EXCEPT
               !.object_domain_map = DictSet(@, Head(clss).Object_ID, pkg_id),
               !.object_slug_map = DictSet(@, Head(clss).Object_ID, slugify(Head(clss).Name))],
            pkg_id, Tail(clss))

\* one iteration of the loop of __init__
IndexDomain(maps, d, info) ==
    IndexClasses([maps EXCEPT !.domain_slug_map = DictSet(@, info.id, info.slug)],
                 info.id,
                 get_classes_in_packages(d, get_descendant_packages(d, info.id)))

EmptyMaps ==
    [object_domain_map |-> EmptyDict, object_slug_map |-> EmptyDict,
     domain_slug_map |-> EmptyDict]

(***************************************************************************)
(* Program state                                                           *)
(***************************************************************************)
VARIABLES
    db,                 \* the database snapshot (never written)
    pc,                 \* "init", "generate", "classes", "schema", "built", "done"
    object_domain_map,  \* object id -> domain package id
    object_slug_map,    \* object id -> schema slug
    domain_slug_map,    \* domain package id -> register slug
    init_i,             \* iterations of the loop of __init__ done
    gen_i,              \* iterations of the loop of generate_all done
    classes,            \* _generate_domain: the classes still to visit
    cls,                \* _generate_schema: the class being mapped (<<>>: none)
    attributes,         \* _generate_schema: the attributes still to map
    associations,       \* _generate_schema: the associations still to map
    properties,         \* _generate_schema: properties
    required,           \* _generate_schema: required
    schema,             \* the value _generate_schema returned (<<>>: none yet)
    schemas,            \* _generate_domain: schemas
    schema_slugs,       \* _generate_domain: schema_slugs
    files,              \* file name -> the configuration written to it
    call_stack,         \* get_descendant_packages: the calls not yet returned
    descendant_ids      \* what the outermost get_descendant_packages returned

vars == <<db, pc, object_domain_map, object_slug_map, domain_slug_map, init_i, gen_i,
          classes, cls, attributes, associations, properties, required, schema,
          schemas, schema_slugs, files, call_stack, descendant_ids>>

index == <<object_domain_map, object_slug_map, domain_slug_map>>
schema_vars == <<cls, attributes, associations, properties, required, schema>>
domain_vars == <<classes, schemas, schema_slugs>>
walk_vars == <<call_stack, descendant_ids>>

Maps ==
    [object_domain_map |-> object_domain_map, object_slug_map |-> object_slug_map,
     domain_slug_map |-> domain_slug_map]

(***************************************************************************)
(* Actions                                                                 *)
(***************************************************************************)
\* variant: generation starts after the first domain has been indexed
GeneratorInitEarly ==
    /\ pc = "init"
    /\ init_i < NumDomains
    /\ LET maps == IndexDomain(Maps, db, DOMAIN_PACKAGES[init_i + 1])
       IN  /\ object_domain_map' = maps.object_domain_map
           /\ object_slug_map' = maps.object_slug_map
           /\ domain_slug_map' = maps.domain_slug_map
    /\ init_i' = init_i + 1
    /\ pc' = "generate"
    /\ UNCHANGED <<db, walk_vars, gen_i, domain_vars, schema_vars, files>>

\* __init__: one iteration of the loop over DOMAIN_PACKAGES
GeneratorInit ==
    /\ pc = "init"
    /\ init_i < NumDomains
    /\ LET maps == IndexDomain(Maps, db, DOMAIN_PACKAGES[init_i + 1])
       IN  /\ object_domain_map' = maps.object_domain_map
           /\ object_slug_map' = maps.object_slug_map
           /\ domain_slug_map' = maps.domain_slug_map
    /\ init_i' = init_i + 1
    /\ pc' = IF init_i + 1 = NumDomains THEN "generate" ELSE "init"
    /\ UNCHANGED <<db, walk_vars, gen_i, domain_vars, schema_vars, files>>

\* generate_all enters _generate_domain for the next domain
DomainBegin ==
    /\ pc = "generate"
    /\ gen_i < NumDomains
    /\ classes' = get_classes_in_packages(
                     db, get_descendant_packages(db, DOMAIN_PACKAGES[gen_i + 1].id))
    /\ schemas' = EmptyDict
    /\ schema_slugs' = <<>>
    /\ pc' = "classes"
    /\ UNCHANGED <<db, walk_vars, index, init_i, gen_i, schema_vars, files>>

\* _generate_domain calls _generate_schema for the next class
SchemaBegin ==
    /\ pc = "classes"
    /\ classes # <<>>
    /\ cls' = Head(classes)
    /\ classes' = Tail(classes)
    /\ attributes' = get_attributes(db, Head(classes).Object_ID)
    /\ associations' = get_associations_for_object(db, Head(classes).Object_ID)
    /\ properties' = EmptyDict
    /\ required' = <<>>
    /\ schema' = <<>>
    /\ pc' = "schema"
    /\ UNCHANGED <<db, walk_vars, index, init_i, gen_i, schemas, schema_slugs, files>>

\* variant: the name as the database has it goes into required
MapAttributeRawRequired ==
    /\ pc = "schema"
    /\ attributes # <<>>
    /\ LET attr == Head(attributes)
           prop == _map_attribute(db, attr)
           prop_name == _sanitize_property_name(OrEmpty(attr.Name))
       IN  IF DOMAIN prop # {}
           THEN /\ properties' = DictSet(properties, prop_name, prop)
                /\ required' = IF IsRequired(attr.LowerBound)
                               THEN Append(required, OrEmpty(attr.Name)) ELSE required
           ELSE UNCHANGED <<properties, required>>
    /\ attributes' = Tail(attributes)
    /\ UNCHANGED <<db, walk_vars, pc, index, init_i, gen_i, domain_vars, cls, associations,
                   schema, files>>

\* _generate_schema: one iteration of the loop over the attributes
MapAttribute ==
    /\ pc = "schema"
    /\ attributes # <<>>
    /\ LET attr == Head(attributes)
           prop == _map_attribute(db, attr)
           prop_name == _sanitize_property_name(OrEmpty(attr.Name))
       IN  IF DOMAIN prop # {}
           THEN /\ properties' = DictSet(properties, prop_name, prop)
                /\ required' = IF IsRequired(attr.LowerBound)
                               THEN Append(required, prop_name) ELSE required
           ELSE UNCHANGED <<properties, required>>
    /\ attributes' = Tail(attributes)
    /\ UNCHANGED <<db, walk_vars, pc, index, init_i, gen_i, domain_vars, cls, associations,
                   schema, files>>

\* variant: the association is stored whether or not its key is taken
MapAssociationOverwrite ==
    /\ pc = "schema"
    /\ attributes = <<>>
    /\ associations # <<>>
    /\ LET rel_prop == _map_association(object_slug_map, Head(associations), cls.Object_ID)
       IN  properties' = IF rel_prop # <<>>
                         THEN DictSet(properties, rel_prop[1], rel_prop[2])
                         ELSE properties
    /\ associations' = Tail(associations)
    /\ UNCHANGED <<db, walk_vars, pc, index, init_i, gen_i, domain_vars, cls, attributes,
                   required, schema, files>>

\* _generate_schema: one iteration of the loop over the associations
MapAssociation ==
    /\ pc = "schema"
    /\ attributes = <<>>
    /\ associations # <<>>
    /\ LET rel_prop == _map_association(object_slug_map, Head(associations), cls.Object_ID)
       IN  properties' = IF rel_prop # <<>> /\ ~HasKey(properties, rel_prop[1])
                         THEN DictSet(properties, rel_prop[1], rel_prop[2])
                         ELSE properties
    /\ associations' = Tail(associations)
    /\ UNCHANGED <<db, walk_vars, pc, index, init_i, gen_i, domain_vars, cls, attributes,
                   required, schema, files>>

\* _generate_schema: the schema is built and returned
BuildSchema ==
    /\ pc = "schema"
    /\ attributes = <<>>
    /\ associations = <<>>
    /\ schema' = [slug |-> slugify(cls.Name),
                  title |-> cls.Name,
                  required |-> required,
                  properties |-> properties,
                  extends |-> ParentNames(object_slug_map,
                                  get_generalizations_for_object(db, cls.Object_ID))]
    /\ pc' = "built"
    /\ UNCHANGED <<db, walk_vars, index, init_i, gen_i, domain_vars, cls, attributes, associations,
                   properties, required, files>>

\* _generate_domain: the returned schema is stored under a free slug
InsertSchema ==
    /\ pc = "built"
    /\ IF DOMAIN schema # {}
       THEN LET slug == FinalSlug(schemas, schema.slug)
            IN  /\ schemas' = DictSet(schemas, slug, [schema EXCEPT !.slug = slug])
                /\ schema_slugs' = Append(schema_slugs, slug)
       ELSE UNCHANGED <<schemas, schema_slugs>>
    /\ pc' = "classes"
    /\ UNCHANGED <<db, walk_vars, index, init_i, gen_i, classes, schema_vars, files>>

\* _generate_domain returns the configuration and generate_all writes it
DomainEnd ==
    /\ pc = "classes"
    /\ classes = <<>>
    /\ LET info == DOMAIN_PACKAGES[gen_i + 1]
           register == [slug |-> info.slug, schemas |-> schema_slugs]
           config == [schemas |-> schemas, register |-> register]
       IN  files' = DictSet(files, info.file, config)
    /\ gen_i' = gen_i + 1
    /\ pc' = IF gen_i + 1 = NumDomains THEN "done" ELSE "generate"
    /\ UNCHANGED <<db, walk_vars, index, init_i, domain_vars, schema_vars>>

Next ==
    \/ GeneratorInit
    \/ DomainBegin
    \/ SchemaBegin
    \/ MapAttribute
    \/ MapAssociation
    \/ BuildSchema
    \/ InsertSchema
    \/ DomainEnd

\* the state in which the program starts on database d
Start(d) ==
    /\ db = d
    /\ pc = "init"
    /\ object_domain_map = EmptyDict
    /\ object_slug_map = EmptyDict
    /\ domain_slug_map = EmptyDict
    /\ init_i = 0
    /\ gen_i = 0
    /\ classes = <<>>
    /\ cls = <<>>
    /\ attributes = <<>>
    /\ associations = <<>>
    /\ properties = EmptyDict
    /\ required = <<>>
    /\ schema = <<>>
    /\ schemas = EmptyDict
    /\ schema_slugs = <<>>
    /\ files = EmptyDict
    /\ call_stack = <<>>
    /\ descendant_ids = <<>>

(***************************************************************************)
(* Inputs                                                                  *)
(***************************************************************************)
MaxTreeClasses == 2
MaxDomainClasses == 3

\* Package 3 is the model root and holds the twelve domain packages; 5 is a
\* package inside domain 4 and 13 a package inside domain 12.  parent12 and
\* parent13 place domain 12 and package 13 in the hierarchy.
PackageRows(parent12, parent13) ==
    <<[Package_ID |-> 3, Parent_ID |-> 0],
      [Package_ID |-> 4, Parent_ID |-> 3],
      [Package_ID |-> 5, Parent_ID |-> 4],
      [Package_ID |-> 12, Parent_ID |-> parent12],
      [Package_ID |-> 13, Parent_ID |-> parent13]>>
    \o [i \in 1..(NumDomains - 2) |->
          [Package_ID |-> DOMAIN_PACKAGES[i + 2].id, Parent_ID |-> 3]]

\* objects that are no modelled entity: an enumeration with two literals, an
\* enumeration without literals, a data type and a class of another stereotype
FixedIds == [enum |-> 90, empty_enum |-> 91, data_type |-> 92, other_class |-> 93]
FixedObjects ==
    <<[Object_ID |-> FixedIds.enum, Name |-> <<"J","N">>, Object_Type |-> "Enumeration",
       Stereotype |-> "", Package_ID |-> 5],
      [Object_ID |-> FixedIds.empty_enum, Name |-> <<"E">>,
       Object_Type |-> "Enumeration", Stereotype |-> "", Package_ID |-> 5],
      [Object_ID |-> FixedIds.data_type, Name |-> <<"D">>, Object_Type |-> "DataType",
       Stereotype |-> "", Package_ID |-> 5],
      [Object_ID |-> FixedIds.other_class, Name |-> <<"o">>, Object_Type |-> "Class",
       Stereotype |-> "Referentielijst", Package_ID |-> 5]>>
FixedAttributes ==
    <<[Object_ID |-> FixedIds.enum, Name |-> StrV(<<"J","a">>), Type |-> Null,
       Classifier |-> Null, LowerBound |-> Null],
      [Object_ID |-> FixedIds.enum, Name |-> StrV(<<"N","e","e">>), Type |-> Null,
       Classifier |-> Null, LowerBound |-> Null]>>

\* the class rows with ids 1..n, of the given names and packages
ClassRows(names, pkgs) ==
    [i \in DOMAIN names |->
        [Object_ID |-> i, Name |-> names[i], Object_Type |-> "Class",
         Stereotype |-> "Objecttype", Package_ID |-> pkgs[i]]]

Attribute(object_id, name, type, classifier, lower) ==
    [Object_ID |-> object_id, Name |-> name, Type |-> type,
     Classifier |-> classifier, LowerBound |-> lower]

Connector(kind, name, start, end, source_card, dest_card, source_role, dest_role) ==
    [Connector_Type |-> kind, Name |-> name,
     Start_Object_ID |-> start, End_Object_ID |-> end,
     SourceCard |-> source_card, DestCard |-> dest_card,
     SourceRole |-> source_role, DestRole |-> dest_role]

Database(packages, class_rows, attribute_rows, connector_rows) ==
    [t_package |-> packages,
     t_object |-> class_rows \o FixedObjects,
     t_attribute |-> attribute_rows \o FixedAttributes,
     t_connector |-> connector_rows]

\* every class has the attribute naam : AN10 [1], each class after the first
\* is associated with the class before it (to many, no role, no name) and
\* specialises it
PlainAttributes(n) ==
    [i \in 1..n |-> Attribute(i, StrV(<<"n","a","a","m">>), StrV(<<"A","N","1","0">>),
                              Null, StrV(<<"1">>))]
PlainConnectors(n) ==
    [i \in 1..(n - 1) |->
        Connector("Association", Null, i + 1, i, StrV(<<"0",".",".","1">>),
                  StrV(<<"0",".",".","*">>), Null, Null)]
    \o [i \in 1..(n - 1) |->
        Connector("Generalization", Null, i + 1, i, Null, Null, Null, Null)]

TreeNames == {<<"a">>, <<"!">>}
TreePackages == {3, 5, 13}

\* the hierarchy varies: domain 12 beside domain 4, inside it or inside its
\* package 5; package 13 inside domain 12 or outside every domain
InitTrees ==
    \E parent12 \in {3, 4, 5}, parent13 \in {12, 0} :
    \E n \in 0..MaxTreeClasses :
    \E names \in [1..n -> TreeNames], pkgs \in [1..n -> TreePackages] :
        Start(Database(PackageRows(parent12, parent13), ClassRows(names, pkgs),
                       PlainAttributes(n), PlainConnectors(n)))

DomainNames == {<<"a">>, <<"A","!">>, <<"a","-","2">>, <<"!">>, <<"a"," ","2">>}

\* the classes of one domain vary: all in package 5 of domain 4
InitDomainClasses ==
    \E n \in 0..MaxDomainClasses :
    \E names \in [1..n -> DomainNames] :
        Start(Database(PackageRows(3, 12), ClassRows(names, [i \in 1..n |-> 5]),
                       PlainAttributes(n), PlainConnectors(n)))

Init == InitTrees \/ InitDomainClasses

Spec == Init /\ [][Next]_vars

(***************************************************************************)
(* Inputs of _generate_schema.  Entity 1 (in domain 4) is the one whose     *)
(* attributes and associations vary; entities 2 (domain 12) and 3 (domain   *)
(* 4) are association targets, and 99 is the id of no object.               *)
(***************************************************************************)
MaxAttributes == 2
MaxAssociations == 2
MaxCardLen == 4
MaxTypeLen == 4

\* all sequences over S of length at most n
SeqsUpTo(S, n) == UNION { [1..k -> S] : k \in 0..n }

SchemaClasses ==
    ClassRows(<<<<"P">>, <<"A">>, <<"B","!">>>>, <<5, 13, 5>>)

KeyAttribute ==
    Attribute(1, StrV(<<"k">>), StrV(<<"i","n","t">>), Null, StrV(<<"1">>))
KeyConnector ==
    Connector("Association", Null, 1, 2, StrV(<<"1">>), StrV(<<"0",".",".","*">>),
              Null, StrV(<<"k">>))

\* the names "k", "K " and "k!" make the same key, "!" the empty key
AttributeChoices ==
    { Attribute(1, StrV(name), StrV(<<"i","n","t">>), Null, lower) :
        name \in {<<"k">>, <<"K"," ">>, <<"k","!">>},
        lower \in {Null, StrV(<<>>), StrV(<<"0">>), StrV(<<"1">>), IntV(0), IntV(1)} }
    \cup { Attribute(1, StrV(<<"!">>), StrV(<<"i","n","t">>), Null, StrV(<<"1">>)) }

\* the attributes of entity 1 vary, no two of the same name; its one
\* association has the key "k"
InitAttributes ==
    \E attrs \in SeqsUpTo(AttributeChoices, MaxAttributes) :
        /\ \A i, j \in DOMAIN attrs : attrs[i].Name = attrs[j].Name => i = j
        /\ Start(Database(PackageRows(3, 12), SchemaClasses, attrs, <<KeyConnector>>))

\* entity 1 is the start of an association with 2 and the end of one with 3
\* or 99; the role at the other end is absent, "k" (the key of the attribute)
\* or "r"
AssociationChoices ==
    { Connector("Association", Null, 1, 2, StrV(<<"1">>), StrV(<<"0",".",".","*">>),
                Null, role) : role \in {Null, StrV(<<"k">>), StrV(<<"r">>)} }
    \cup { Connector("Aggregation", Null, other, 1, StrV(<<"0",".",".","1">>),
                     StrV(<<"1">>), role, Null) :
             other \in {3, 99}, role \in {Null, StrV(<<"k">>), StrV(<<"r">>)} }

\* the associations of entity 1 vary; its one attribute has the key "k"
InitAssociations ==
    \E conns \in SeqsUpTo(AssociationChoices, MaxAssociations) :
        Start(Database(PackageRows(3, 12), SchemaClasses, <<KeyAttribute>>, conns))

CardChars == {"0", "1", "*", "."}
Cardinalities ==
    {Null, IntV(0), IntV(1)}
    \cup { StrV(c) : c \in SeqsUpTo(CardChars, MaxCardLen) }
    \cup { StrV(c) : c \in {<<"2",".",".","4">>, <<"0",".",".","n">>,
                            <<"0",".",".","1"," ">>, <<"1",".",".","*"," ">>,
                            <<"n">>, <<"1","0",".",".","1">>} }

\* the cardinality at the other end of the one association of entity 1 varies
InitCardinalities ==
    \E card \in Cardinalities :
        Start(Database(PackageRows(3, 12), SchemaClasses, <<KeyAttribute>>,
                       <<Connector("Association", Null, 2, 1, card, StrV(<<"1">>),
                                   StrV(<<"r">>), Null)>>))

InitSchema == InitAttributes \/ InitAssociations \/ InitCardinalities

SpecSchema == InitSchema /\ [][Next]_vars

TypeChars == {"N", "A", "1", ".", " "}
TypeSamples ==
    { <<"N","1","0",".","2">>, <<"N","1","8",",","2">>, <<" ","N","1","0",".","2"," ">>,
      <<"n","1","0">>, <<"A","N","1","0">>, <<"a","n","1","0">>, <<"A","N","0","0","7">>,
      <<"v","a","r","c","h","a","r">>, <<"V","a","r","C","h","a","r">>,
      <<"v","a","r","c","h","a","r","(","5","0",")">>,
      <<"V","A","R","C","H","A","R","2","(","1","2",")">>,
      <<"v","a","r","c","h","a","r","2">>, <<"v","a","r","c","h","a","r","2","2","(","5",")">>,
      <<"v","a","r","c","h","a","r","(","5">>, <<"v","a","r","c","h","a","r","(",")">>,
      <<"v","a","r","c","h","a","r","(","5",")","x">>,
      <<"b","o","o","l">>, <<"B","o","o","l","e","a","n">>, <<"i","n","d","i","c">>,
      <<"i","n","t">>, <<"I","N","T">>, <<"n","u","m","b","e","r">>, <<" ","i","n","t"," ">>,
      <<"d","o","u","b","l","e">>, <<"B","e","d","r","a","g">>,
      <<"d","a","t","e">>, <<"D","a","t","e","T","i","m","e">>, <<"t","i","m","e">>,
      <<"j","a","a","r">>, <<"u","r","l">>, <<"U","R","I">>, <<"e","m","a","i","l">>,
      <<"i","b","a","n">>, <<"p","u","n","t">>, <<"v","l","a","k">>, <<"g","u","i","d">>,
      <<"b","l","o","b">>, <<"i","m","a","g","e">>, <<"t","e","x","t">>, <<"t","a","n">>,
      <<"T","A","N">>, <<"a","b","c">>, <<"a","b","c","d">>, <<"a","b","1">>, <<"x">>,
      <<"G","e","s","l","a","c","h","t">> }
TypeTokens ==
    {Null} \cup { StrV(t) : t \in SeqsUpTo(TypeChars, MaxTypeLen) \cup TypeSamples }

\* a classifier that is absent, zero, an enumeration with or without
\* literals, a data type, a class, or the id of no object
Classifiers ==
    { Null, StrV(<<"0">>), IntV(0), IntV(FixedIds.enum), StrV(<<"9","1">>),
      IntV(FixedIds.data_type), IntV(FixedIds.other_class), StrV(<<"7","7">>) }

\* the type token of the one attribute of entity 1 varies, or its classifier
InitTypes ==
    \/ \E type \in TypeTokens :
          Start(Database(PackageRows(3, 12), SchemaClasses,
                         <<Attribute(1, StrV(<<"k">>), type, Null, Null)>>,
                         <<KeyConnector>>))
    \/ \E classifier \in Classifiers, type \in {StrV(<<"N","1">>), StrV(<<" ","N","1">>)} :
          Start(Database(PackageRows(3, 12), SchemaClasses,
                         <<Attribute(1, StrV(<<"k">>), type, classifier, Null)>>,
                         <<KeyConnector>>))

SpecTypes == InitTypes /\ [][Next]_vars

(***************************************************************************)
(* What the properties speak of                                            *)
(***************************************************************************)
\* the modelled entities of the database: class rows of stereotype Objecttype
Entities ==
    { r \in Range(db.t_object) : r.Object_Type = "Class" /\ r.Stereotype = "Objecttype" }

PackageIds == { db.t_package[i].Package_ID : i \in DOMAIN db.t_package }
ParentOf(p) ==
    db.t_package[CHOOSE i \in DOMAIN db.t_package : db.t_package[i].Package_ID = p].Parent_ID

\* p and the packages above it, following Parent_ID upwards at most n times
RECURSIVE SelfAndAncestors(_, _)
SelfAndAncestors(p, n) ==
    IF n = 0 \/ p \notin PackageIds THEN {p}
    ELSE {p} \cup SelfAndAncestors(ParentOf(p), n - 1)
Above(p) == SelfAndAncestors(p, Len(db.t_package))

\* the positions in DOMAIN_PACKAGES of the domains whose root lies above p
DomainsAbove(p) ==
    LET above == Above(p)
    IN  { i \in 1..NumDomains : DOMAIN_PACKAGES[i].id \in above }

\* no domain root lies beneath another domain root
RootsDisjoint == \A i \in 1..NumDomains : DomainsAbove(DOMAIN_PACKAGES[i].id) = {i}

\* the entities beneath the root of domain i, in the order of t_object
EntitiesOfDomain(i) ==
    SelectSeq(db.t_object, LAMBDA r : r \in Entities /\ i \in DomainsAbove(r.Package_ID))

\* the configuration written for domain i
FileOf(i) == Get(files, DOMAIN_PACKAGES[i].file)

NoDuplicates(s) == \A i, j \in DOMAIN s : s[i] = s[j] => i = j

\* the rows of the class whose schema is being generated
AttributesOfCls == get_attributes(db, cls.Object_ID)
AssociationsOfCls == get_associations_for_object(db, cls.Object_ID)

\* the property key an attribute row produces
AttributeKey(attr) == _sanitize_property_name(OrEmpty(attr.Name))
AttributeKeys == { AttributeKey(AttributesOfCls[i]) : i \in DOMAIN AttributesOfCls }

\* the positions of the associations of cls whose other end is in the index
Resolved ==
    { i \in DOMAIN AssociationsOfCls :
        HasKey(object_slug_map, OtherEnd(AssociationsOfCls[i], cls.Object_ID).target_id) }
TargetSlug(i) ==
    Get(object_slug_map, OtherEnd(AssociationsOfCls[i], cls.Object_ID).target_id)
AssociationKey(i) ==
    AssociationPropName(OtherEnd(AssociationsOfCls[i], cls.Object_ID).role, TargetSlug(i))
\* the associations that put their own property into the schema
Kept ==
    { i \in Resolved :
        /\ AssociationKey(i) \notin AttributeKeys
        /\ \A j \in Resolved : AssociationKey(j) = AssociationKey(i) => i <= j }

\* the slug a relation property refers to
RefOf(prop) == IF prop.type = "array" THEN prop.items.ref ELSE prop.ref

\* the number of times x occurs in the sequence s
Count(s, x) == Cardinality({ i \in DOMAIN s : s[i] = x })

\* every schema document there is: returned, stored or written
Documents ==
    (IF pc = "built" THEN {schema} ELSE {})
    \cup { schemas[k][2] : k \in DOMAIN schemas }
    \cup UNION { { files[f][2].schemas[k][2] : k \in DOMAIN files[f][2].schemas } :
                 f \in DOMAIN files }

(***************************************************************************)
(* C1: slugs of a domain                                                   *)
(***************************************************************************)
Suffixed(base, k) == base \o <<"-">> \o DecStr(k)

\* the j-th final slug of a domain, given the final slugs before it
SlugRule(base, earlier, final, j) ==
    IF base \notin earlier THEN final = base
    ELSE \E k \in 2..(j + 1) :
            /\ final = Suffixed(base, k)
            /\ Suffixed(base, k) \notin earlier
            /\ \A k2 \in 2..(k - 1) : Suffixed(base, k2) \in earlier

DomainSlugsOK(i) ==
    LET f == FileOf(i)
        ents == EntitiesOfDomain(i)
        slugs == f.register.schemas
    IN  /\ \A k \in DOMAIN f.schemas : f.schemas[k][2].slug = f.schemas[k][1]
        /\ NoDuplicates(slugs)
        /\ Len(slugs) = Len(ents)
        /\ \A j \in DOMAIN ents :
              SlugRule(slugify(ents[j].Name), { slugs[m] : m \in 1..(j - 1) }, slugs[j], j)
        /\ slugs = Keys(f.schemas)
        /\ \A j \in DOMAIN ents : Get(f.schemas, slugs[j]).title = ents[j].Name

\* C1: in every configuration written, (a) each key of schemas is the slug
\* field of the document under it, (b) the entities of the domain have
\* pairwise different final slugs, (c) an entity whose base slug is taken has
\* <base>-k for the least k >= 2 that is free, and (d) the register lists
\* exactly the keys of schemas, each once, in the order of the entities.
C1_DomainSlugs == \A i \in 1..gen_i : DomainSlugsOK(i)

\* a domain whose third entity had to skip the suffix 2
C1_Witness ==
    \E i \in 1..gen_i :
        /\ Len(FileOf(i).register.schemas) >= 3
        /\ <<"a", "-", "3">> \in Range(FileOf(i).register.schemas)
        /\ <<"a", "-", "2">> \in Range(FileOf(i).register.schemas)

(***************************************************************************)
(* C3: the index is complete before any schema is generated                *)
(***************************************************************************)
IndexComplete ==
    /\ init_i = NumDomains
    /\ \A i \in 1..NumDomains :
          /\ HasKey(domain_slug_map, DOMAIN_PACKAGES[i].id)
          /\ Get(domain_slug_map, DOMAIN_PACKAGES[i].id) = DOMAIN_PACKAGES[i].slug
    /\ \A e \in Entities :
          DomainsAbove(e.Package_ID) # {} =>
              /\ HasKey(object_domain_map, e.Object_ID)
              /\ HasKey(object_slug_map, e.Object_ID)
              /\ Get(object_slug_map, e.Object_ID) = slugify(e.Name)

\* C3: once the program has left __init__ (so whenever generate_all,
\* _generate_domain, _generate_schema, _map_attribute or _map_association
\* runs) the index holds every entity of all twelve domains, and no step
\* taken after __init__ changes the index.
C3_IndexFirst ==
    /\ [](pc # "init" => IndexComplete)
    /\ [][pc # "init" => UNCHANGED index]_vars

\* an association is mapped whose other end lies in a domain generated later
C3_Witness ==
    /\ pc = "schema"
    /\ attributes = <<>>
    /\ associations # <<>>
    /\ LET target_id == OtherEnd(Head(associations), cls.Object_ID).target_id
       IN  /\ HasKey(object_domain_map, target_id)
           /\ \E i \in (gen_i + 2)..NumDomains :
                 DOMAIN_PACKAGES[i].id = Get(object_domain_map, target_id)

(***************************************************************************)
(* C6: an entity without a usable name                                     *)
(***************************************************************************)
\* C6: an entity whose slug is empty yields no schema: _generate_schema
\* returns nothing for it, and no configuration holds a document of it.
C6_NoSchemaForEmptyName ==
    /\ (pc = "built" /\ slugify(cls.Name) = <<>>) => DOMAIN schema = {}
    /\ \A i \in 1..gen_i :
          /\ \A k \in DOMAIN FileOf(i).schemas :
                slugify(FileOf(i).schemas[k][2].title) # <<>>
          /\ Len(FileOf(i).register.schemas) =
                Cardinality({ j \in DOMAIN EntitiesOfDomain(i) :
                                slugify(EntitiesOfDomain(i)[j].Name) # <<>> })

(***************************************************************************)
(* C10: partitions                                                         *)
(***************************************************************************)
IndexedUnder(i) ==
    { e \in Entities : /\ HasKey(object_domain_map, e.Object_ID)
                       /\ Get(object_domain_map, e.Object_ID) = DOMAIN_PACKAGES[i].id }

OnePartition ==
    /\ \A e \in Entities :
          LET above == DomainsAbove(e.Package_ID)
          IN  \* an entry of the index is written once: it names the first
              \* domain, in the order of the table, under which the entity
              \* was found
              /\ HasKey(object_domain_map, e.Object_ID) =>
                    /\ above # {}
                    /\ \E i \in above :
                          /\ \A j \in above : i <= j
                          /\ Get(object_domain_map, e.Object_ID) = DOMAIN_PACKAGES[i].id
              \* an entity beneath the root of a domain indexed so far is in
              \* the index
              /\ (\E i \in above : i <= init_i) => HasKey(object_domain_map, e.Object_ID)
    \* a schema is generated only in the domain the index records
    /\ pc \in {"schema", "built"} =>
          /\ HasKey(object_domain_map, cls.Object_ID)
          /\ Get(object_domain_map, cls.Object_ID) = DOMAIN_PACKAGES[gen_i + 1].id
    \* a configuration holds the schemas of the entities indexed under it
    /\ \A i \in 1..gen_i :
          Len(FileOf(i).register.schemas) = Cardinality(IndexedUnder(i))

\* C10 as stated: for every hierarchy and every placement of the domain
\* roots in it, an entity is indexed under one partition only, its entry is
\* never overwritten, its schema is generated in that partition only, and an
\* entity under no root is in no document and not in the index.
C10_AnyPlacement == OnePartition

\* C10 as amended: the same, for hierarchies in which no domain root lies
\* beneath another domain root.
C10_DisjointRoots == RootsDisjoint => OnePartition

\* all is written; one entity was found under domain 12 only, another under
\* no domain
C10_Witness ==
    /\ RootsDisjoint
    /\ pc = "done"
    /\ \E e1, e2 \in Entities :
          /\ DomainsAbove(e1.Package_ID) = {2}
          /\ DomainsAbove(e2.Package_ID) = {}
          /\ ~HasKey(object_slug_map, e2.Object_ID)
          /\ Len(FileOf(2).register.schemas) = 1

(***************************************************************************)
(* C2: required names are property keys                                    *)
(***************************************************************************)
\* C2: in every schema document, every name of required is a key of
\* properties.
C2_RequiredSubset ==
    \A doc \in Documents : \A n \in Range(doc.required) : HasKey(doc.properties, n)

\* a schema in which an attribute with the empty key and another attribute
\* are required
C2_Witness ==
    /\ pc = "built"
    /\ Len(schema.required) = 2
    /\ <<>> \in Range(schema.required)
    /\ Len(AttributesOfCls) = 2

(***************************************************************************)
(* C4: an association whose other end is not in the index                  *)
(***************************************************************************)
\* C4: the step that maps an association leaves properties and required as
\* they are and goes on to the next association when the other end is not in
\* the index; when it is, the key of the association is a key of properties
\* afterwards: a property referring to the slug of the other end is added at
\* the end, unless the key was present, and then nothing changes.
C4_UnresolvedDropped ==
    [][(pc = "schema" /\ attributes = <<>> /\ associations # <<>>) =>
        LET other == OtherEnd(Head(associations), cls.Object_ID)
        IN  /\ required' = required
            /\ pc' = "schema"
            /\ associations' = Tail(associations)
            /\ IF ~HasKey(object_slug_map, other.target_id)
               THEN properties' = properties
               ELSE LET target_slug == Get(object_slug_map, other.target_id)
                        key == AssociationPropName(other.role, target_slug)
                    IN  IF HasKey(properties, key) THEN properties' = properties
                        ELSE /\ Len(properties') = Len(properties) + 1
                             /\ SubSeq(properties', 1, Len(properties)) = properties
                             /\ properties'[Len(properties')][1] = key
                             /\ RefOf(properties'[Len(properties')][2]) = target_slug
      ]_vars

\* a schema built from an attribute, an association that was dropped and one
\* that gave a property
C4_Witness ==
    /\ pc = "built"
    /\ Len(AssociationsOfCls) = 2
    /\ Cardinality(Resolved) = 1
    /\ Len(properties) = 2
    /\ Len(required) = 1

(***************************************************************************)
(* C5: cardinality and shape                                               *)
(***************************************************************************)
\* the cardinalities of the claim that make an array
ArrayCardinality(cardinality) ==
    /\ ~IsNull(cardinality)
    /\ LET c == PyStr(cardinality)
       IN  \/ ToStr(c) \in {"0..*", "1..*", "*"}
           \/ /\ c # <<>>
              /\ ToStr(c) \notin {"0..*", "1..*", "*", "0..1", "1", "1..1"}
              /\ \/ Contains(c, <<"*">>)
                 \/ Contains(c, <<".", ".">>) /\ ~EndsWith(c, <<".", ".", "1">>)

\* C5: the property an association puts into the schema is
\* {type: array, title, items: {type: object, $ref: slug}} exactly when the
\* cardinality at the other end is "0..*", "1..*" or "*", or another
\* non-empty string that contains "*" or contains ".." and does not end in
\* "..1"; otherwise it is {type: object, title, $ref: slug}.
C5_Shape ==
    pc = "built" =>
        \A i \in Kept :
            LET key == AssociationKey(i)
                prop == Get(properties, key)
            IN  IF ArrayCardinality(OtherEnd(AssociationsOfCls[i], cls.Object_ID).cardinality)
                THEN prop = [type |-> "array", title |-> key,
                             items |-> [type |-> "object", ref |-> TargetSlug(i)]]
                ELSE prop = [type |-> "object", title |-> key, ref |-> TargetSlug(i)]

\* an array made by the general rule: ".." and no "*", not ending in "..1"
C5_Witness ==
    /\ pc = "built"
    /\ \E i \in Kept :
          LET c == OtherEnd(AssociationsOfCls[i], cls.Object_ID).cardinality
          IN  /\ IsStr(c)
              /\ ~Contains(c.str, <<"*">>)
              /\ Contains(c.str, <<".", ".">>)
              /\ Get(properties, AssociationKey(i)).type = "array"

(***************************************************************************)
(* C7: attributes before associations                                      *)
(***************************************************************************)
\* the last attribute of cls that produces the key k
LastWithKey(k) ==
    CHOOSE i \in DOMAIN AttributesOfCls :
        /\ AttributeKey(AttributesOfCls[i]) = k
        /\ \A j \in DOMAIN AttributesOfCls :
              AttributeKey(AttributesOfCls[j]) = k => j <= i

\* C7: in a built schema every key an attribute produced holds the
\* definition of an attribute (the last one of that key), the attribute keys
\* come before the other keys, and every other key holds the definition of
\* the first resolved association of that key.
C7_AttributesWin ==
    pc = "built" =>
        /\ \A k \in AttributeKeys :
              /\ HasKey(properties, k)
              /\ Get(properties, k) = _map_attribute(db, AttributesOfCls[LastWithKey(k)])
        /\ \A m, n \in DOMAIN properties :
              (m < n /\ properties[n][1] \in AttributeKeys) =>
                  properties[m][1] \in AttributeKeys
        /\ \A i \in Resolved : HasKey(properties, AssociationKey(i))
        /\ \A i \in Kept :
              Get(properties, AssociationKey(i)) =
                  _map_association(object_slug_map, AssociationsOfCls[i], cls.Object_ID)[2]
        /\ \A n \in DOMAIN properties :
              \/ properties[n][1] \in AttributeKeys
              \/ \E i \in Kept : properties[n][1] = AssociationKey(i)

\* one association has the key of an attribute, another a key of its own
C7_Witness ==
    /\ pc = "built"
    /\ \E i \in Resolved : AssociationKey(i) \in AttributeKeys
    /\ Kept # {}

(***************************************************************************)
(* C8: required                                                            *)
(***************************************************************************)
\* the lower bound is present and neither "0", numeric zero nor empty
LowerBoundSet(lower) ==
    /\ ~IsNull(lower)
    /\ IsStr(lower) => lower.str \notin {<<>>, <<"0">>}
    /\ IsInt(lower) => lower.int # 0

\* C8 as stated: the key of an attribute is in required if and only if the
\* lower bound of that attribute is present and neither "0" nor empty.
C8_PerAttribute ==
    pc = "built" =>
        \A i \in DOMAIN AttributesOfCls :
            (AttributeKey(AttributesOfCls[i]) \in Range(required))
                <=> LowerBoundSet(AttributesOfCls[i].LowerBound)

\* C8 as amended: a key is in required once for every attribute that
\* produces it and has such a lower bound; so it is in required if and only
\* if some attribute that produces it has such a lower bound.
C8_PerKey ==
    pc = "built" =>
        /\ \A k \in AttributeKeys :
              Count(required, k) =
                  Cardinality({ i \in DOMAIN AttributesOfCls :
                                  /\ AttributeKey(AttributesOfCls[i]) = k
                                  /\ LowerBoundSet(AttributesOfCls[i].LowerBound) })
        /\ Range(required) \subseteq AttributeKeys

\* two attributes of one key, the first with lower bound "1", the second "0"
C8_Witness ==
    /\ pc = "built"
    /\ Len(AttributesOfCls) = 2
    /\ AttributeKey(AttributesOfCls[1]) = AttributeKey(AttributesOfCls[2])
    /\ AttributesOfCls[1].LowerBound = StrV(<<"1">>)
    /\ AttributesOfCls[2].LowerBound = StrV(<<"0">>)
    /\ Len(required) = 1

(***************************************************************************)
(* C9: the precedence of the type rules                                    *)
(***************************************************************************)
\* the places i..j of t hold one digit or more
DigitRun(t, i, j) == i <= j /\ \A n \in i..j : t[n] \in Range(DigitChars)
\* the token shapes N<digits>, N<digits>[.,]<digits> and AN<digits>
TokenNDigits(t) == Len(t) >= 2 /\ t[1] = "N" /\ DigitRun(t, 2, Len(t))
TokenNDecimal(t) ==
    /\ Len(t) >= 4
    /\ t[1] = "N"
    /\ \E p \in 3..(Len(t) - 1) :
          t[p] \in {".", ","} /\ DigitRun(t, 2, p - 1) /\ DigitRun(t, p + 1, Len(t))
TokenAN(t) == Len(t) >= 3 /\ t[1] = "A" /\ t[2] = "N" /\ DigitRun(t, 3, Len(t))

\* rule r of the list of fourteen, for the token t (absent: no token)
RuleMatches(r, absent, t) ==
    LET word == ToStr(Lower(t))
    IN  CASE r = 1 -> absent \/ t = <<>>
          [] r = 2 -> word \in {"boolean", "bool", "indic", "stdindijn"}
          [] r = 3 -> word \in {"int", "integer", "number"} \/ TokenNDigits(t)
          [] r = 4 -> \/ word \in {"double", "decimal", "float", "bedrag", "geldbedrag"}
                      \/ TokenNDecimal(t)
          [] r = 5 -> word \in {"date", "datum", "datetime", "datumtijd", "time",
                                "jaar", "year"}
          [] r = 6 -> word \in {"url", "uri", "email", "iban", "telefoonnummer"}
          [] r = 7 -> word \in {"point", "punt", "gm_point", "gm_punt", "gm_surface",
                                "gm_multisurface", "vlak", "spatial", "gm_curve",
                                "gm_lijn", "gm_multicurve", "gm_multipoint",
                                "multipuntlijn(multi)vlak"}
          [] r = 8 -> word = "guid"
          [] r = 9 -> word \in {"blob", "image"}
          [] r = 10 -> TokenAN(t)
          [] r = 11 -> StartsWith(Lower(t), Varchar)
          [] r = 12 -> word \in {"char", "characterstring", "string", "text", "tekst",
                                 "tan"}
          [] r = 13 -> Len(t) <= 3 /\ IsAlphaStr(t)
          [] OTHER -> TRUE

RuleDescriptor(r, t) ==
    LET word == ToStr(Lower(t))
    IN  CASE r = 2 -> [type |-> "boolean"]
          [] r = 3 -> [type |-> "integer"]
          [] r = 4 -> [type |-> "number"]
          [] r = 5 -> [type |-> "string",
                       format |-> IF word \in {"datetime", "datumtijd"} THEN "date-time"
                                  ELSE IF word = "time" THEN "time" ELSE "date"]
          [] r = 6 -> IF word \in {"url", "uri"} THEN [type |-> "string", format |-> "uri"]
                      ELSE IF word = "email" THEN [type |-> "string", format |-> "email"]
                      ELSE [type |-> "string"]
          [] r = 7 -> [type |-> "string", format |-> "geo"]
          [] r = 8 -> [type |-> "string", format |-> "uuid"]
          [] r = 9 -> [type |-> "string", format |-> "binary"]
          [] r = 10 -> [type |-> "string", maxLength |-> ParseInt(SubSeq(t, 3, Len(t)))]
          [] r = 11 -> [type |-> "string",
                        maxLength |-> IF MatchVarcharLen(Lower(t))
                                      THEN ParseInt(VarcharGroup(Lower(t))) ELSE 255]
          [] OTHER -> [type |-> "string"]

\* the descriptor of the first rule that matches
FirstRule(absent, t) ==
    CHOOSE r \in 1..14 :
        RuleMatches(r, absent, t) /\ \A q \in 1..(r - 1) : ~RuleMatches(q, absent, t)
RuleMap(absent, t) == RuleDescriptor(FirstRule(absent, t), t)

\* the attribute takes its definition from the literals of an enumeration
EnumClassified(attr) ==
    /\ Truthy(attr.Classifier)
    /\ ToStr(PyStr(attr.Classifier)) \notin {"0", ""}
    /\ IsEnum(db, ClassifierId(attr.Classifier))

TokenChars(type) == IF IsNull(type) THEN <<>> ELSE type.str

\* C9 as stated: the definition of an attribute is the descriptor of the
\* first of the fourteen rules that its type token matches (with the title).
C9_RawToken ==
    pc = "built" =>
        \A k \in AttributeKeys :
            LET attr == AttributesOfCls[LastWithKey(k)]
            IN  ~EnumClassified(attr) =>
                    Get(properties, k) =
                        WithField(RuleMap(IsNull(attr.Type), TokenChars(attr.Type)),
                                  "title", attr.Name)

\* C9 as amended: the same for the token without its leading and trailing
\* whitespace.
C9_StrippedToken ==
    pc = "built" =>
        \A k \in AttributeKeys :
            LET attr == AttributesOfCls[LastWithKey(k)]
            IN  ~EnumClassified(attr) =>
                    Get(properties, k) =
                        WithField(RuleMap(IsNull(attr.Type), Strip(TokenChars(attr.Type))),
                                  "title", attr.Name)

\* a token N<digits>.<digits> with whitespace around it became a number
C9_Witness ==
    /\ pc = "built"
    /\ \E i \in DOMAIN AttributesOfCls :
          LET attr == AttributesOfCls[i]
          IN  /\ IsStr(attr.Type)
              /\ Strip(attr.Type.str) # attr.Type.str
              /\ MatchNDecimal(Strip(attr.Type.str))
              /\ Get(properties, AttributeKey(attr)).type = "number"

(***************************************************************************)
(* get_descendant_packages, call by call                                   *)
(*                                                                         *)
(* Each call is a frame [parent_id, children, result]: children are the    *)
(* entries of package_children[parent_id] the loop has not yet visited.    *)
(* The interpreter allows MaxDepth calls at a time and raises              *)
(* RecursionError on the next one.                                         *)
(***************************************************************************)
MaxPackages == 3
MaxDepth == 4

Frame(d, parent_id) ==
    [parent_id |-> parent_id,
     children |-> package_children(d, parent_id),
     result |-> <<parent_id>>]

WithTop(stack, frame) == [stack EXCEPT ![Len(stack)] = frame]
Pop(stack) == SubSeq(stack, 1, Len(stack) - 1)

\* the loop reaches a child and calls get_descendant_packages for it
DescendantCall ==
    /\ pc = "walk"
    /\ call_stack # <<>>
    /\ LET top == call_stack[Len(call_stack)]
       IN  /\ top.children # <<>>
           /\ Len(call_stack) < MaxDepth
           /\ call_stack' =
                  Append(WithTop(call_stack, [top EXCEPT !.children = Tail(@)]),
                         Frame(db, Head(top.children)))
    /\ UNCHANGED <<db, pc, descendant_ids, index, init_i, gen_i, domain_vars,
                   schema_vars, files>>

\* the call for the child is one call too deep
DescendantOverflow ==
    /\ pc = "walk"
    /\ call_stack # <<>>
    /\ call_stack[Len(call_stack)].children # <<>>
    /\ Len(call_stack) >= MaxDepth
    /\ pc' = "RecursionError"
    /\ call_stack' = <<>>
    /\ UNCHANGED <<db, descendant_ids, index, init_i, gen_i, domain_vars,
                   schema_vars, files>>

\* the loop of the innermost call is over: it returns its result, which the
\* caller appends to its own
DescendantReturn ==
    /\ pc = "walk"
    /\ call_stack # <<>>
    /\ LET top == call_stack[Len(call_stack)]
           rest == Pop(call_stack)
       IN  /\ top.children = <<>>
           /\ IF rest = <<>>
              THEN /\ descendant_ids' = top.result
                   /\ call_stack' = <<>>
                   /\ pc' = "returned"
              ELSE /\ call_stack' =
                          WithTop(rest, [rest[Len(rest)] EXCEPT
                                            !.result = @ \o top.result])
                   /\ UNCHANGED <<pc, descendant_ids>>
    /\ UNCHANGED <<db, index, init_i, gen_i, domain_vars, schema_vars, files>>

NextPackages ==
    \/ DescendantCall
    \/ DescendantOverflow
    \/ DescendantReturn

\* the first MaxPackages domain packages, each under any of them (itself
\* included) or under the root package 3
WalkIds == { DOMAIN_PACKAGES[i].id : i \in 1..MaxPackages }
WalkRows(parent) ==
    [i \in 1..MaxPackages |->
        [Package_ID |-> DOMAIN_PACKAGES[i].id, Parent_ID |-> parent[i]]]

InitPackages ==
    \E parent \in [1..MaxPackages -> WalkIds \cup {3}], root \in WalkIds :
        /\ db = Database(WalkRows(parent), <<>>, <<>>, <<>>)
        /\ pc = "walk"
        /\ call_stack = <<Frame(db, root)>>
        /\ descendant_ids = <<>>
        /\ object_domain_map = EmptyDict
        /\ object_slug_map = EmptyDict
        /\ domain_slug_map = EmptyDict
        /\ init_i = 0
        /\ gen_i = 0
        /\ classes = <<>>
        /\ cls = <<>>
        /\ attributes = <<>>
        /\ associations = <<>>
        /\ properties = EmptyDict
        /\ required = <<>>
        /\ schema = <<>>
        /\ schemas = EmptyDict
        /\ schema_slugs = <<>>
        /\ files = EmptyDict

SpecPackages == InitPackages /\ [][NextPackages]_vars

(***************************************************************************)
(* C11: the descendants of a package                                       *)
(***************************************************************************)
\* the packages n steps or fewer below those of S
RECURSIVE Below(_, _)
Below(S, n) ==
    IF n = 0 THEN S
    ELSE Below(S \cup { r.Package_ID : r \in { x \in Range(db.t_package) : x.Parent_ID \in S } },
               n - 1)
ReachableFrom(root) == Below({root}, Len(db.t_package))

\* C11: get_descendant_packages(root) returns, and what it returns is the
\* root with every package reachable from it, each id once.
C11_ReturnsDescendants ==
    /\ pc # "RecursionError"
    /\ pc = "returned" =>
          /\ Range(descendant_ids) = ReachableFrom(Head(descendant_ids))
          /\ NoDuplicates(descendant_ids)

(***************************************************************************)
(* C12: the key of an association                                          *)
(***************************************************************************)
\* entity 1 has the attribute "k" and one association with entity 2, as its
\* start or its end; the name of entity 2, the role at its end and the name
\* of the association vary
KeyTargetNames == {<<"A">>, <<"A"," ","b">>, <<"!">>}
KeyRoles == {Null, StrV(<<>>), StrV(<<"r">>), StrV(<<"m","y"," ","R">>), StrV(<<"!">>)}
KeyNames == {Null, StrV(<<"n">>), StrV(<<"!">>)}

InitKeys ==
    \E target \in KeyTargetNames, role \in KeyRoles, name \in KeyNames,
       forward \in BOOLEAN :
        LET conn == IF forward
                    THEN Connector("Association", name, 1, 2, Null, StrV(<<"1">>),
                                   Null, role)
                    ELSE Connector("Association", name, 2, 1, StrV(<<"1">>), Null,
                                   role, Null)
        IN  Start(Database(PackageRows(3, 12), ClassRows(<<<<"P">>, target>>, <<5, 13>>),
                           <<KeyAttribute>>, <<conn>>))

SpecKeys == InitKeys /\ [][Next]_vars

\* the role column of the end of assoc that is not cls
OtherRole(assoc) ==
    IF assoc.Start_Object_ID = cls.Object_ID THEN assoc.DestRole ELSE assoc.SourceRole

\* the key by the order role, name of the association, slug of the target
KeyByOrder(i) ==
    LET assoc == AssociationsOfCls[i]
        candidate ==
            IF Truthy(OtherRole(assoc)) THEN _sanitize_property_name(OtherRole(assoc).str)
            ELSE IF Truthy(assoc.Name) THEN _sanitize_property_name(assoc.Name.str)
            ELSE TargetSlug(i)
    IN  IF candidate = <<>> THEN TargetSlug(i) ELSE candidate

\* the keys of the properties that refer to a schema
RelationKeys ==
    { properties[n][1] :
        n \in { m \in DOMAIN properties :
                  DOMAIN properties[m][2] \cap {"ref", "items"} # {} } }

\* C12: the property of an association whose other end is in the index has
\* a key that is not empty: the sanitized role of the other end, else the
\* sanitized name of the association, else the slug of the target, and the
\* slug of the target when the sanitized text is empty.
C12_KeyOrder ==
    pc = "built" =>
        \A i \in Resolved :
            /\ KeyByOrder(i) # <<>>
            /\ KeyByOrder(i) # AttributeKey(KeyAttribute) => RelationKeys = {KeyByOrder(i)}

(***************************************************************************)
(* C13: what a $ref designates                                             *)
(***************************************************************************)
\* the other end of assoc, seen from the entity e
OtherId(assoc, e) ==
    IF assoc.Start_Object_ID = e.Object_ID THEN assoc.End_Object_ID
    ELSE assoc.Start_Object_ID

\* the position in DOMAIN_PACKAGES of the domain the index records for id
DomainOf(id) ==
    CHOOSE d \in 1..NumDomains : DOMAIN_PACKAGES[d].id = Get(object_domain_map, id)

\* the key under which the document of the entity id is stored in the
\* configuration of its domain: the register lists the keys in the order of
\* the entities
StoredSlug(id) ==
    LET ents == EntitiesOfDomain(DomainOf(id))
        j == CHOOSE n \in DOMAIN ents : ents[n].Object_ID = id
    IN  FileOf(DomainOf(id)).register.schemas[j]

\* the references in the stored document of the j-th entity of domain d
\* designate the stored documents of the targets
RefsOK(d, j) ==
    LET e == EntitiesOfDomain(d)[j]
        doc == Get(FileOf(d).schemas, FileOf(d).register.schemas[j])
        assocs == get_associations_for_object(db, e.Object_ID)
        resolved == { n \in DOMAIN assocs : HasKey(object_slug_map, OtherId(assocs[n], e)) }
        key(n) == AssociationPropName(OtherEnd(assocs[n], e.Object_ID).role,
                                      Get(object_slug_map, OtherId(assocs[n], e)))
    IN  \A n \in resolved :
            ( /\ DomainOf(OtherId(assocs[n], e)) <= gen_i
              /\ HasKey(doc.properties, key(n))
              /\ DOMAIN Get(doc.properties, key(n)) \cap {"ref", "items"} # {}
              /\ \A m \in resolved : key(m) = key(n) => n <= m )
            => RefOf(Get(doc.properties, key(n))) = StoredSlug(OtherId(assocs[n], e))

\* C13: in every configuration written, the $ref of the property of an
\* association is the key under which the document of its target is stored
\* in the configuration of the target's domain.
C13_RefsStoredSlug ==
    \A d \in 1..gen_i : \A j \in DOMAIN EntitiesOfDomain(d) : RefsOK(d, j)

====
